---- MODULE Spec2Model ----
\* A model of the Cashu wallet orchestrator (src/src/CashuWallet.ts).
\* The wallet object holds the cached mint keys, the cached keyset id and an
\* optional seed.  Every public operation is one action: its inputs and the
\* mint's answers are drawn from small sets, the requests it issues are logged
\* in reqs and what it returns (or throws) is stored in result.
EXTENDS Integers, Sequences, FiniteSets, TLC

VARIABLES _keys, _keysetId, _seed, call, reqs, result

vars == <<_keys, _keysetId, _seed, call, reqs, result>>

-----------------------------------------------------------------------------
\* Bounds of the explored inputs.

MaxProofs == 2
MaxAmount == 5
MaxCounter == 1
MaxPrefCount == 2
MaxEntries == 2
MaxFeeReserve == 5
MaxRestoreCount == 2
MaxMintAmount == 7

\* Denominations of the proofs handed to the wallet (powers of two).
Denominations == {1, 2, 4}
\* Denominations a caller may name in a preference (powers of two).
PrefAmounts == {1, 2}

-----------------------------------------------------------------------------
\* JavaScript values that have no TLA+ counterpart.

\* counter?: number left out by the caller
NoCounter == -1
\* keysetId?: string left out by the caller / a missing string field
UndefinedStr == "undefined"
\* a missing object (tokensWithErrors: undefined)
Undefined == [undefined |-> TRUE]
\* preference?: Array<AmountPreference> left out by the caller
NoPreference == [given |-> FALSE, list |-> <<>>]
\* a ?? b
Coalesce(a, b) == IF a = UndefinedStr THEN b ELSE a

\* private _keys = {} as MintKeys: an object without own properties
NoKeys == [id |-> "", n |-> 0]
\* a MintKeys object of the mint (id, unit, keys)
MintKeys(id) == [id |-> id, n |-> 3]
\* The keyset the mint answers GET /keys with, and another keyset of the mint.
ActiveKeysetId == "A"
OtherKeysetId == "B"
KeysetIds == {ActiveKeysetId, OtherKeysetId}

ErrNotEnoughFunds == "Not enough funds available"
ErrNoSeed == "Cannot create deterministic messages without seed"
ErrRestoreNoSeed == "CashuWallet must be initialized with mnemonic to use restore"
ErrBadResponse == "bad response"
ErrProofs == "constructProofs"

Throw(e) == [status |-> "error", error |-> e]
\* an awaited request the mint has not answered: the call is suspended there
Pending == [status |-> "pending"]

-----------------------------------------------------------------------------
\* Helpers on sequences.

RECURSIVE SumAmounts(_)
\* proofs.reduce((total, curr) => total + curr.amount, 0)
SumAmounts(proofs) ==
  IF proofs = <<>> THEN 0 ELSE Head(proofs).amount + SumAmounts(Tail(proofs))

Reverse(s) == [i \in 1..Len(s) |-> s[Len(s) + 1 - i]]

SeqsUpTo(S, n) == UNION {[1..k -> S] : k \in 0..n}

\* The proofs a caller holds: fresh proofs of the active keyset, told apart by
\* their secret.
InputProof(a, k) ==
  [id |-> ActiveKeysetId, amount |-> a,
   secret |-> [kind |-> "input", id |-> "", index |-> k],
   C |-> [kind |-> "input", index |-> k]]
InputProofs(amounts, base) ==
  [i \in 1..Len(amounts) |-> InputProof(amounts[i], base + i)]

-----------------------------------------------------------------------------
\* utils.ts: the amount decomposer.

RECURSIVE PrefTotal(_)
\* preference.reduce((acc, curr) => acc + curr.amount * curr.count, 0)
PrefTotal(p) ==
  IF p = <<>> THEN 0 ELSE Head(p).amount * Head(p).count + PrefTotal(Tail(p))

RECURSIVE PrefChunks(_)
PrefChunks(p) ==
  IF p = <<>> THEN <<>>
  ELSE [i \in 1..Head(p).count |-> Head(p).amount] \o PrefChunks(Tail(p))

RECURSIVE DefaultSplit(_, _)
\* one power of two per set bit, ascending
DefaultSplit(value, bit) ==
  IF value <= 0 THEN <<>>
  ELSE (IF value % 2 = 1 THEN <<bit>> ELSE <<>>) \o DefaultSplit(value \div 2, bit * 2)

\* the split that takes the preference whatever it sums to
splitAmountAlwaysPreference(amount, preference) ==
  IF preference.given
  THEN PrefChunks(preference.list)
  ELSE DefaultSplit(amount, 1)

splitAmount(amount, preference) ==
  IF preference.given /\ PrefTotal(preference.list) = amount
  THEN PrefChunks(preference.list)
  ELSE DefaultSplit(amount, 1)

getDefaultAmountPreference(amount) ==
  LET chunks == DefaultSplit(amount, 1)
  IN [given |-> TRUE,
      list |-> [i \in 1..Len(chunks) |-> [amount |-> chunks[i], count |-> 1]]]

-----------------------------------------------------------------------------
\* Output planning.

\* deriveSecret / deriveBlindingFactor(seed, keysetId, counter): one value per
\* (keyset id, index); the path tells the secret from the blinding factor.
deriveSecret(keysetId, index) ==
  [kind |-> "derived", path |-> 0, id |-> keysetId, index |-> index]
deriveBlindingFactor(keysetId, index) ==
  [kind |-> "derived", path |-> 1, id |-> keysetId, index |-> index]
\* randomBytes(32): the draw-th fresh value of the call
randomBytes(draw) == [kind |-> "random", path |-> 0, id |-> "", index |-> draw]
\* the blinding factor dhke.blindMessage samples when none is given
randomR(draw) == [kind |-> "random", path |-> 1, id |-> "", index |-> draw]
\* new TextEncoder().encode(bytesToHex(secretBytes))
EncodeHex(secretBytes) == [utf8 |-> [hex |-> secretBytes]]
\* dhke.blindMessage(secret, r): B_ = hashToCurve(secret) + r*G
blindMessage(secret, r) == [Y |-> secret, rG |-> r]

secretAtOffByOne(deterministic, id, counter, draw, i) ==
  EncodeHex(IF deterministic THEN deriveSecret(id, counter + i)
            ELSE randomBytes(draw + i))

\* the secret of the output at position i (from 1) of the loop
secretAt(deterministic, id, counter, draw, i) ==
  EncodeHex(IF deterministic THEN deriveSecret(id, counter + i - 1)
            ELSE randomBytes(draw + i))
\* the blinding factor of the output at position i
blindingFactorAt(deterministic, id, counter, draw, i) ==
  IF deterministic THEN deriveBlindingFactor(id, counter + i - 1) ELSE randomR(draw + i)
\* new BlindedMessage(amounts[i], B_, keysetId).getSerializedBlindedMessage()
SerializedBlindedMessage(amount, secret, r, id) ==
  [amount |-> amount, B_ |-> blindMessage(secret, r), id |-> id]

\* the loop of createBlindedMessages
planOutputs(amounts, id, deterministic, counter, draw) ==
  [ok |-> TRUE, error |-> "",
   blindedMessages |->
     [i \in 1..Len(amounts) |->
        SerializedBlindedMessage(amounts[i],
                                 secretAt(deterministic, id, counter, draw, i),
                                 blindingFactorAt(deterministic, id, counter, draw, i),
                                 id)],
   secrets |-> [i \in 1..Len(amounts) |-> secretAt(deterministic, id, counter, draw, i)],
   rs |-> [i \in 1..Len(amounts) |-> blindingFactorAt(deterministic, id, counter, draw, i)],
   amounts |-> amounts]

\* planning aborted by a throw
NoOutputs(error) ==
  [ok |-> FALSE, error |-> error,
   blindedMessages |-> <<>>, secrets |-> <<>>, rs |-> <<>>, amounts |-> <<>>]

missingSeedTruthy(counter) == counter # NoCounter /\ counter # 0 /\ ~_seed

\* if (counter != undefined && !this._seed) throw
missingSeed(counter) == counter # NoCounter /\ ~_seed

createBlindedMessagesTruthy(amounts, keysetId, counter, draw) ==
  IF missingSeed(counter) THEN NoOutputs(ErrNoSeed)
  ELSE planOutputs(amounts, Coalesce(keysetId, _keysetId),
                   _seed /\ counter # NoCounter /\ counter # 0, counter, draw)

createBlindedMessages(amounts, keysetId, counter, draw) ==
  IF missingSeed(counter) THEN NoOutputs(ErrNoSeed)
  ELSE planOutputs(amounts, Coalesce(keysetId, _keysetId),
                   _seed /\ counter # NoCounter, counter, draw)

createRandomBlindedMessages(amount, keyset, amountPreference, counter, draw) ==
  createBlindedMessages(splitAmount(amount, amountPreference), keyset.id, counter, draw)

\* counter = counter + keepBlindedMessages.secrets.length, under if (this._seed && counter)
AdvanceCounter(counter, keepLen) ==
  IF _seed /\ counter # NoCounter /\ counter # 0 THEN counter + keepLen ELSE counter

\* the join with the send group in front
joinBlindedMessagesSendFirst(keepBlindedMessages, sendBlindedMessages, proofsToSend) ==
  IF ~sendBlindedMessages.ok THEN sendBlindedMessages
  ELSE [ok |-> TRUE, error |-> "",
        blindedMessages |->
          sendBlindedMessages.blindedMessages \o keepBlindedMessages.blindedMessages,
        secrets |-> sendBlindedMessages.secrets \o keepBlindedMessages.secrets,
        rs |-> sendBlindedMessages.rs \o keepBlindedMessages.rs,
        amounts |-> sendBlindedMessages.amounts \o keepBlindedMessages.amounts]

\* "join keepBlindedMessages and sendBlindedMessages" and the payload
joinBlindedMessages(keepBlindedMessages, sendBlindedMessages, proofsToSend) ==
  IF ~sendBlindedMessages.ok THEN sendBlindedMessages
  ELSE [ok |-> TRUE, error |-> "",
        blindedMessages |->
          keepBlindedMessages.blindedMessages \o sendBlindedMessages.blindedMessages,
        secrets |-> keepBlindedMessages.secrets \o sendBlindedMessages.secrets,
        rs |-> keepBlindedMessages.rs \o sendBlindedMessages.rs,
        amounts |-> keepBlindedMessages.amounts \o sendBlindedMessages.amounts]

\* createSplitPayload once the keep group is planned
planSendGroup(keepBlindedMessages, amount, proofsToSend, keyset, preference, counter) ==
  IF ~keepBlindedMessages.ok THEN keepBlindedMessages
  ELSE joinBlindedMessages(
         keepBlindedMessages,
         createRandomBlindedMessages(
           amount, keyset, preference,
           AdvanceCounter(counter, Len(keepBlindedMessages.secrets)),
           Len(keepBlindedMessages.secrets)),
         proofsToSend)

createSplitPayload(amount, proofsToSend, keyset, preference, counter) ==
  planSendGroup(
    createRandomBlindedMessages(SumAmounts(proofsToSend) - amount, keyset,
                                NoPreference, counter, 0),
    amount, proofsToSend, keyset, preference, counter)

-----------------------------------------------------------------------------
\* The mint and the BDHKE engine.

\* The signature of an honest mint on one blinded message.
Sign(output) == [id |-> output.id, amount |-> output.amount, C_ |-> [k |-> output.B_]]

\* The answers of the mint to a swap of outputs: "honest" signs every output
\* in the submitted order, "reversed" returns the same signatures in the
\* opposite order, "fail" is an error response.
MintModes == {"honest", "reversed", "fail"}
Signatures(outputs, mode) ==
  IF mode = "reversed"
  THEN Reverse([i \in 1..Len(outputs) |-> Sign(outputs[i])])
  ELSE [i \in 1..Len(outputs) |-> Sign(outputs[i])]

\* dhke.constructProofs(signatures, rs, secrets, keyset): element-wise, the
\* proof carries the signature's id and amount and the retained secret.
constructProofs(signatures, rs, secrets, keyset) ==
  IF Len(signatures) # Len(rs) \/ Len(signatures) # Len(secrets)
  THEN [ok |-> FALSE, proofs |-> <<>>]
  ELSE [ok |-> TRUE,
        proofs |-> [i \in 1..Len(signatures) |->
                      [id |-> signatures[i].id, amount |-> signatures[i].amount,
                       secret |-> secrets[i],
                       C |-> [C_ |-> signatures[i].C_, r |-> rs[i], K |-> keyset.id]]]]

-----------------------------------------------------------------------------
\* Keys.

\* !this.keysetId || !Object.keys(this.keys).length
NeedsKeys(keys, keysetId) == keysetId = "" \/ keys.n = 0

KeysRequest(id) == [endpoint |-> "keys", id |-> id]

\* initKeys that stores the fetched keys and leaves the keyset id as it was
initKeysStaleId(keys, keysetId, keysOk) ==
  IF NeedsKeys(keys, keysetId)
  THEN IF keysOk
       THEN [ok |-> TRUE, keys |-> MintKeys(ActiveKeysetId), keysetId |-> keysetId,
             reqs |-> <<KeysRequest(UndefinedStr)>>]
       ELSE [ok |-> FALSE, keys |-> keys, keysetId |-> keysetId,
             reqs |-> <<KeysRequest(UndefinedStr)>>]
  ELSE [ok |-> TRUE, keys |-> keys, keysetId |-> keysetId, reqs |-> <<>>]

initKeysRefetch(keys, keysetId, keysOk) ==
  IF keysOk
  THEN [ok |-> TRUE, keys |-> MintKeys(ActiveKeysetId), keysetId |-> ActiveKeysetId,
        reqs |-> <<KeysRequest(UndefinedStr)>>]
  ELSE [ok |-> FALSE, keys |-> keys, keysetId |-> keysetId,
        reqs |-> <<KeysRequest(UndefinedStr)>>]

\* initKeys() on a wallet holding (keys, keysetId): what the wallet holds
\* afterwards and what it asked the mint; keysOk tells whether GET /keys answers.
initKeys(keys, keysetId, keysOk) ==
  IF NeedsKeys(keys, keysetId)
  THEN IF keysOk
       THEN [ok |-> TRUE, keys |-> MintKeys(ActiveKeysetId), keysetId |-> ActiveKeysetId,
             reqs |-> <<KeysRequest(UndefinedStr)>>]
       ELSE [ok |-> FALSE, keys |-> keys, keysetId |-> keysetId,
             reqs |-> <<KeysRequest(UndefinedStr)>>]
  ELSE [ok |-> TRUE, keys |-> keys, keysetId |-> keysetId, reqs |-> <<>>]

\* getKeys returning this.keys
cachedKeys(ik) ==
  [ok |-> ik.ok, found |-> ik.keys, keys |-> ik.keys, keysetId |-> ik.keysetId,
   reqs |-> ik.reqs]

keysForCaching(arr, ik, keysOk) ==
  IF ~ik.ok THEN cachedKeys(ik)
  ELSE IF arr = <<>> THEN cachedKeys(ik)
  ELSE IF arr[1].id = "" \/ ik.keysetId = arr[1].id THEN cachedKeys(ik)
  ELSE [ok |-> keysOk, found |-> MintKeys(arr[1].id),
        keys |-> IF keysOk THEN MintKeys(arr[1].id) ELSE ik.keys,
        keysetId |-> IF keysOk THEN arr[1].id ELSE ik.keysetId,
        reqs |-> ik.reqs \o <<KeysRequest(arr[1].id)>>]

\* getKeys after its initKeys(): found is what is returned, keys and keysetId
\* are what the wallet holds afterwards.
keysFor(arr, ik, keysOk) ==
  IF ~ik.ok THEN cachedKeys(ik)
  ELSE IF arr = <<>> THEN cachedKeys(ik)
  ELSE IF arr[1].id = "" \/ ik.keysetId = arr[1].id THEN cachedKeys(ik)
  ELSE [ok |-> keysOk, found |-> MintKeys(arr[1].id), keys |-> ik.keys,
        keysetId |-> ik.keysetId, reqs |-> ik.reqs \o <<KeysRequest(arr[1].id)>>]

\* getKeys(arr): the keys of the keyset that signed arr
getKeys(arr, keys, keysetId, keysOk) ==
  keysFor(arr, initKeys(keys, keysetId, keysOk), keysOk)

\* what a call leaves behind: the keys held, the requests issued, the outcome
Outcome(keys, keysetId, rq, res) ==
  [keys |-> keys, keysetId |-> keysetId, reqs |-> rq, result |-> res]

-----------------------------------------------------------------------------
\* send

selectStepOneMore(acc, proof, amount) ==
  IF acc.amountAvailable > amount
  THEN [acc EXCEPT !.proofsToKeep = Append(@, proof)]
  ELSE [acc EXCEPT !.amountAvailable = @ + proof.amount,
                   !.proofsToSend = Append(@, proof)]

selectStep(acc, proof, amount) ==
  IF acc.amountAvailable >= amount
  THEN [acc EXCEPT !.proofsToKeep = Append(@, proof)]
  ELSE [acc EXCEPT !.amountAvailable = @ + proof.amount,
                   !.proofsToSend = Append(@, proof)]

RECURSIVE selectProofs(_, _, _)
\* proofs.forEach(...) of send: the greedy selection
selectProofs(proofs, amount, acc) ==
  IF proofs = <<>> THEN acc
  ELSE selectProofs(Tail(proofs), amount, selectStep(acc, Head(proofs), amount))

NothingSelected == [amountAvailable |-> 0, proofsToSend |-> <<>>, proofsToKeep |-> <<>>]

splitReceive(amount, amountAvailable) ==
  [amountKeep |-> amountAvailable - amount, amountSend |-> amount]

divideStepOffByOne(acc, proof, amountKeep) ==
  IF acc.amountKeepCounter <= amountKeep
  THEN [acc EXCEPT !.amountKeepCounter = @ + proof.amount,
                   !.splitProofsToKeep = Append(@, proof)]
  ELSE [acc EXCEPT !.splitProofsToSend = Append(@, proof)]

divideStep(acc, proof, amountKeep) ==
  IF acc.amountKeepCounter < amountKeep
  THEN [acc EXCEPT !.amountKeepCounter = @ + proof.amount,
                   !.splitProofsToKeep = Append(@, proof)]
  ELSE [acc EXCEPT !.splitProofsToSend = Append(@, proof)]

RECURSIVE divideProofs(_, _, _)
\* proofs.forEach(...) of send after the swap: "sum up proofs until amount2 is reached"
divideProofs(proofs, amountKeep, acc) ==
  IF proofs = <<>> THEN acc
  ELSE divideProofs(Tail(proofs), amountKeep, divideStep(acc, Head(proofs), amountKeep))

NothingDivided ==
  [amountKeepCounter |-> 0, splitProofsToKeep |-> <<>>, splitProofsToSend |-> <<>>]

effectiveAmountIgnored(amount, preference) == amount

\* amount = preference.reduce(...) when a preference is given
effectiveAmount(amount, preference) ==
  IF preference.given THEN PrefTotal(preference.list) ELSE amount

insufficientFundsLate(amount, amountAvailable) == amount > amountAvailable + 1

\* if (amount > amountAvailable) throw new Error('Not enough funds available')
insufficientFunds(amount, amountAvailable) == amount > amountAvailable

needsSwapAlways(amount, amountAvailable, preference) ==
  amount <= amountAvailable \/ preference.given

\* if (amount < amountAvailable || preference)
needsSwap(amount, amountAvailable, preference) ==
  amount < amountAvailable \/ preference.given

\* this.mint.split(payload)
SwapRequest(inputs, outputs) ==
  [endpoint |-> "split", inputs |-> inputs, outputs |-> outputs]

\* the return of the swap branch
sendReturn(ik, sel, sp, div) ==
  Outcome(ik.keys, ik.keysetId,
          ik.reqs \o <<SwapRequest(sel.proofsToSend, sp.blindedMessages)>>,
          [status |-> "ok",
           returnChange |-> div.splitProofsToKeep \o sel.proofsToKeep,
           send |-> div.splitProofsToSend])

\* the swap branch once the signatures are unblinded
sendDivide(ik, sel, sr, sp, cp) ==
  IF ~cp.ok
  THEN Outcome(ik.keys, ik.keysetId,
               ik.reqs \o <<SwapRequest(sel.proofsToSend, sp.blindedMessages)>>,
               Throw(ErrProofs))
  ELSE sendReturn(ik, sel, sp, divideProofs(cp.proofs, sr.amountKeep, NothingDivided))

\* the swap branch once the payload is built
sendSwap(ik, sel, sr, sp, mode) ==
  IF ~sp.ok THEN Outcome(ik.keys, ik.keysetId, ik.reqs, Throw(sp.error))
  ELSE IF mode = "pending"
  THEN Outcome(ik.keys, ik.keysetId,
               ik.reqs \o <<SwapRequest(sel.proofsToSend, sp.blindedMessages)>>,
               Pending)
  ELSE IF mode = "fail"
  THEN Outcome(ik.keys, ik.keysetId,
               ik.reqs \o <<SwapRequest(sel.proofsToSend, sp.blindedMessages)>>,
               Throw(ErrBadResponse))
  ELSE sendDivide(ik, sel, sr, sp,
                  constructProofs(Signatures(sp.blindedMessages, mode),
                                  sp.rs, sp.secrets, ik.keys))

\* the swap branch: splitReceive, then createSplitPayload
sendPlan(ik, sel, sr, preference, counter, mode) ==
  sendSwap(ik, sel, sr,
           createSplitPayload(sr.amountSend, sel.proofsToSend, ik.keys, preference, counter),
           mode)

\* send once the proofs are selected
sendSelected(amount, preference, counter, mode, ik, sel) ==
  IF insufficientFunds(amount, sel.amountAvailable)
  THEN Outcome(ik.keys, ik.keysetId, ik.reqs, Throw(ErrNotEnoughFunds))
  ELSE IF needsSwap(amount, sel.amountAvailable, preference)
  THEN sendPlan(ik, sel, splitReceive(amount, sel.amountAvailable),
                preference, counter, mode)
  ELSE Outcome(ik.keys, ik.keysetId, ik.reqs,
               [status |-> "ok", returnChange |-> sel.proofsToKeep,
                send |-> sel.proofsToSend])

\* send once initKeys() is over
sendWithKeys(amount, proofs, preference, counter, mode, ik) ==
  IF ~ik.ok THEN Outcome(ik.keys, ik.keysetId, ik.reqs, Throw(ErrBadResponse))
  ELSE sendSelected(amount, preference, counter, mode, ik,
                    selectProofs(proofs, amount, NothingSelected))

\* The whole of send(): the state of the keys afterwards, the requests issued
\* and the value returned or the error thrown.
send(amount, proofs, preference, counter, keysOk, mode) ==
  sendWithKeys(effectiveAmount(amount, preference), proofs, preference, counter, mode,
               initKeys(_keys, _keysetId, keysOk))

-----------------------------------------------------------------------------
\* receive

\* CashuMint.split(tokenEntry.mint, payload)
EntrySwapRequest(tokenEntry, outputs) ==
  [endpoint |-> "split", mint |-> tokenEntry.mint,
   inputs |-> tokenEntry.proofs, outputs |-> outputs]

\* what receiveTokenEntry returns, with the keys it leaves and its requests
EntryOutcome(ik, rq, proofs, proofsWithError) ==
  [keys |-> ik.keys, keysetId |-> ik.keysetId, reqs |-> rq,
   proofs |-> proofs, proofsWithError |-> proofsWithError]

\* receiveTokenEntry once the signatures are unblinded
entryProofs(tokenEntry, ik, sp, cp) ==
  IF ~cp.ok
  THEN EntryOutcome(ik, ik.reqs \o <<EntrySwapRequest(tokenEntry, sp.blindedMessages)>>,
                    <<>>, tokenEntry.proofs)
  ELSE EntryOutcome(ik, ik.reqs \o <<EntrySwapRequest(tokenEntry, sp.blindedMessages)>>,
                    cp.proofs, <<>>)

\* receiveTokenEntry once the payload is built
entrySwap(tokenEntry, ik, sp, mode) ==
  IF ~sp.ok THEN EntryOutcome(ik, ik.reqs, <<>>, tokenEntry.proofs)
  ELSE IF mode = "pending"
  THEN EntryOutcome(ik, ik.reqs \o <<EntrySwapRequest(tokenEntry, sp.blindedMessages)>>,
                    <<>>, <<>>)
  ELSE IF mode = "fail"
  THEN EntryOutcome(ik, ik.reqs \o <<EntrySwapRequest(tokenEntry, sp.blindedMessages)>>,
                    <<>>, tokenEntry.proofs)
  ELSE entryProofs(tokenEntry, ik, sp,
                   constructProofs(Signatures(sp.blindedMessages, mode),
                                   sp.rs, sp.secrets, ik.keys))

\* receiveTokenEntry once initKeys() is over
entryWithKeys(tokenEntry, amount, preference, counter, ik, mode) ==
  IF ~ik.ok THEN EntryOutcome(ik, ik.reqs, <<>>, tokenEntry.proofs)
  ELSE entrySwap(tokenEntry, ik,
                 createSplitPayload(amount, tokenEntry.proofs, ik.keys, preference, counter),
                 mode)

\* if (!preference) preference = getDefaultAmountPreference(amount)
entryPreference(preference, amount) ==
  IF ~preference.given THEN getDefaultAmountPreference(amount) ELSE preference

\* receiveTokenEntry(tokenEntry, preference, counter) on a wallet holding
\* (keys, keysetId); mode is the answer of the entry's mint to the swap.
\* Every failure inside is caught and turns into proofsWithError.
receiveTokenEntry(tokenEntry, preference, counter, keys, keysetId, keysOk, mode) ==
  entryWithKeys(tokenEntry, SumAmounts(tokenEntry.proofs),
                entryPreference(preference, SumAmounts(tokenEntry.proofs)),
                counter, initKeys(keys, keysetId, keysOk), mode)

routeEntryDropsFailed(acc, tokenEntry, r) ==
  IF Len(r.proofsWithError) > 0
  THEN [acc EXCEPT !.keys = r.keys, !.keysetId = r.keysetId, !.reqs = @ \o r.reqs]
  ELSE [acc EXCEPT !.keys = r.keys, !.keysetId = r.keysetId, !.reqs = @ \o r.reqs,
                   !.tokenEntries =
                      Append(@, [mint |-> tokenEntry.mint, proofs |-> r.proofs])]

\* the loop body of receive after receiveTokenEntry returned r
routeEntry(acc, tokenEntry, r) ==
  IF Len(r.proofsWithError) > 0
  THEN [acc EXCEPT !.keys = r.keys, !.keysetId = r.keysetId, !.reqs = @ \o r.reqs,
                   !.tokenEntriesWithError = Append(@, tokenEntry)]
  ELSE [acc EXCEPT !.keys = r.keys, !.keysetId = r.keysetId, !.reqs = @ \o r.reqs,
                   !.tokenEntries =
                      Append(@, [mint |-> tokenEntry.mint, proofs |-> r.proofs])]

\* one turn of the loop of receive
receiveStep(acc, tokenEntry, preference, counter, keysOk, mode) ==
  IF Len(tokenEntry.proofs) = 0 THEN acc
  ELSE routeEntry(acc, tokenEntry,
                  receiveTokenEntry(tokenEntry, preference, counter,
                                    acc.keys, acc.keysetId, keysOk, mode))

RECURSIVE receiveLoop(_, _, _, _, _, _)
receiveLoop(decodedToken, modes, preference, counter, keysOk, acc) ==
  IF decodedToken = <<>> THEN acc
  ELSE receiveLoop(Tail(decodedToken), Tail(modes), preference, counter, keysOk,
                   receiveStep(acc, Head(decodedToken), preference, counter, keysOk,
                               Head(modes)))

\* the value receive returns
ReceiveResponse(tokenEntries, tokenEntriesWithError) ==
  [status |-> "ok",
   token |-> [token |-> tokenEntries],
   tokensWithErrors |-> IF Len(tokenEntriesWithError) > 0
                        THEN [token |-> tokenEntriesWithError]
                        ELSE Undefined]

receiveReturn(acc) ==
  Outcome(acc.keys, acc.keysetId, acc.reqs,
          ReceiveResponse(acc.tokenEntries, acc.tokenEntriesWithError))

\* receive(token, preference, counter) with an already decoded token
receive(token, preference, counter, keysOk, modes) ==
  receiveReturn(
    receiveLoop(token.token, modes, preference, counter, keysOk,
                [keys |-> _keys, keysetId |-> _keysetId, reqs |-> <<>>,
                 tokenEntries |-> <<>>, tokenEntriesWithError |-> <<>>]))

-----------------------------------------------------------------------------
\* meltTokens

\* Math.ceil(Math.log2(feeReserve)) for feeReserve >= 1
RECURSIVE CeilLog2(_)
CeilLog2(n) == IF n <= 1 THEN 0 ELSE 1 + CeilLog2((n + 1) \div 2)

blankCountUnclamped(feeReserve) ==
  IF feeReserve = 0 THEN 0 ELSE CeilLog2(feeReserve)

\* let count = Math.ceil(Math.log2(feeReserve)) || 1; if (count < 0) count = 0
\* (log2(0) is -Infinity, which is truthy and negative)
blankCount(feeReserve) ==
  IF feeReserve = 0 THEN 0
  ELSE IF CeilLog2(feeReserve) = 0 THEN 1
  ELSE CeilLog2(feeReserve)

createBlankOutputs(feeReserve, keysetId, counter) ==
  createBlindedMessages([i \in 1..blankCount(feeReserve) |-> 1], keysetId, counter, 0)

\* The answers of the mint to a melt: an error, or a response whose fields
\* paid, payment_preimage and change may each be missing.  A present change
\* signs every blank output under the keyset changeId.
MeltResponses ==
  {[answered |-> TRUE, fail |-> TRUE, hasPaid |-> FALSE, paid |-> FALSE,
    payment_preimage |-> UndefinedStr, hasChange |-> FALSE, changeId |-> ""]}
  \cup [answered : {TRUE}, fail : {FALSE}, hasPaid : BOOLEAN, paid : BOOLEAN,
        payment_preimage : {UndefinedStr, "preimage"},
        hasChange : BOOLEAN, changeId : KeysetIds]
\* the melt request is still awaited
NoMeltResponse ==
  [answered |-> FALSE, fail |-> FALSE, hasPaid |-> FALSE, paid |-> FALSE,
   payment_preimage |-> UndefinedStr, hasChange |-> FALSE, changeId |-> ""]

MeltChange(outputs, response) ==
  [i \in 1..Len(outputs) |->
     [id |-> response.changeId, amount |-> outputs[i].amount, C_ |-> [k |-> outputs[i].B_]]]

\* const meltPayload = { quote, inputs, outputs }
MeltPayload(meltQuote, proofsToSend, blindedMessages) ==
  [endpoint |-> "melt", quote |-> meltQuote.quote,
   inputs |-> proofsToSend, outputs |-> blindedMessages]

paidOrTrue(response) == IF response.hasPaid THEN response.paid ELSE TRUE

\* meltResponse.paid ?? false
paidOrFalse(response) == IF response.hasPaid THEN response.paid ELSE FALSE

\* the value meltTokens returns
MeltTokensResponse(response, change) ==
  [status |-> "ok", isPaid |-> paidOrFalse(response),
   preimage |-> response.payment_preimage, change |-> change]

\* meltTokens once the change is unblinded
meltChange(meltPayload, gk, cp, response) ==
  IF ~cp.ok
  THEN Outcome(gk.keys, gk.keysetId, <<meltPayload>> \o gk.reqs, Throw(ErrProofs))
  ELSE Outcome(gk.keys, gk.keysetId, <<meltPayload>> \o gk.reqs,
               MeltTokensResponse(response, cp.proofs))

\* meltTokens once getKeys(meltResponse.change) is over
meltWithKeys(meltPayload, bo, change, gk, response) ==
  IF ~gk.ok
  THEN Outcome(gk.keys, gk.keysetId, <<meltPayload>> \o gk.reqs, Throw(ErrBadResponse))
  ELSE meltChange(meltPayload, gk, constructProofs(change, bo.rs, bo.secrets, gk.found),
                  response)

\* meltTokens once the mint has answered
meltAnswered(meltPayload, bo, keysOk, response) ==
  IF ~response.answered THEN Outcome(_keys, _keysetId, <<meltPayload>>, Pending)
  ELSE IF response.fail THEN Outcome(_keys, _keysetId, <<meltPayload>>, Throw(ErrBadResponse))
  ELSE IF ~response.hasChange
  THEN Outcome(_keys, _keysetId, <<meltPayload>>, MeltTokensResponse(response, <<>>))
  ELSE meltWithKeys(meltPayload, bo, MeltChange(bo.blindedMessages, response),
                    getKeys(MeltChange(bo.blindedMessages, response),
                            _keys, _keysetId, keysOk),
                    response)

\* meltTokens once the blank outputs are planned
meltWithOutputs(meltQuote, proofsToSend, bo, keysOk, response) ==
  IF ~bo.ok THEN Outcome(_keys, _keysetId, <<>>, Throw(bo.error))
  ELSE meltAnswered(MeltPayload(meltQuote, proofsToSend, bo.blindedMessages),
                    bo, keysOk, response)

meltTokens(meltQuote, proofsToSend, keysetId, counter, keysOk, response) ==
  meltWithOutputs(meltQuote, proofsToSend,
                  createBlankOutputs(meltQuote.fee_reserve,
                                     Coalesce(keysetId, _keysetId), counter),
                  keysOk, response)

-----------------------------------------------------------------------------
\* restore

\* the elements of s at the positions in signed, in order
PickSeq(s, signed) ==
  LET F[i \in 0..Len(s)] ==
        IF i = 0 THEN <<>>
        ELSE IF i \in signed THEN Append(F[i - 1], s[i]) ELSE F[i - 1]
  IN F[Len(s)]

\* The mint's answer to a restore: the outputs at the positions signed and one
\* signature of amount 1 for each; "honest" lists them in the submitted order,
\* "reversed" in the opposite order.
RestoreSign(output) == [id |-> output.id, amount |-> 1, C_ |-> [k |-> output.B_]]
RestorePromises(outputs) == [i \in 1..Len(outputs) |-> RestoreSign(outputs[i])]

\* rs.filter((r, i) => outputs.map((o) => o.B_).includes(blindedMessages[i].B_))
filterByOutputs(xs, blindedMessages, outputs) ==
  PickSeq(xs, {i \in 1..Len(xs) :
                 \E j \in 1..Len(outputs) : outputs[j].B_ = blindedMessages[i].B_})

\* this.mint.restore({ outputs: blindedMessages })
RestoreRequest(blindedMessages) == [endpoint |-> "restore", outputs |-> blindedMessages]

\* restore once the proofs are constructed
restoreProofs(bm, gk, cp) ==
  IF ~cp.ok
  THEN Outcome(gk.keys, gk.keysetId,
               <<RestoreRequest(bm.blindedMessages)>> \o gk.reqs, Throw(ErrProofs))
  ELSE Outcome(gk.keys, gk.keysetId,
               <<RestoreRequest(bm.blindedMessages)>> \o gk.reqs,
               [status |-> "ok", proofs |-> cp.proofs])

\* restore once getKeys(promises) is over
restoreWithKeys(bm, outputs, promises, gk) ==
  IF ~gk.ok
  THEN Outcome(gk.keys, gk.keysetId,
               <<RestoreRequest(bm.blindedMessages)>> \o gk.reqs, Throw(ErrBadResponse))
  ELSE restoreProofs(bm, gk,
                     constructProofs(promises,
                                     filterByOutputs(bm.rs, bm.blindedMessages, outputs),
                                     filterByOutputs(bm.secrets, bm.blindedMessages, outputs),
                                     gk.found))

\* restore once the mint has answered with outputs
restoreAnswered(bm, outputs, keysOk) ==
  restoreWithKeys(bm, outputs, RestorePromises(outputs),
                  getKeys(RestorePromises(outputs), _keys, _keysetId, keysOk))

\* restore once the outputs are planned
RestoreOutputs(blindedMessages, signed, mode) ==
  IF mode = "reversed" THEN Reverse(PickSeq(blindedMessages, signed))
  ELSE PickSeq(blindedMessages, signed)

restorePlanned(bm, keysOk, signed, mode) ==
  IF ~bm.ok THEN Outcome(_keys, _keysetId, <<>>, Throw(bm.error))
  ELSE IF mode = "pending"
  THEN Outcome(_keys, _keysetId, <<RestoreRequest(bm.blindedMessages)>>, Pending)
  ELSE IF mode = "fail"
  THEN Outcome(_keys, _keysetId, <<RestoreRequest(bm.blindedMessages)>>,
               Throw(ErrBadResponse))
  ELSE restoreAnswered(bm, RestoreOutputs(bm.blindedMessages, signed, mode), keysOk)

restore(start, count, keysetId, keysOk, signed, mode) ==
  IF ~_seed THEN Outcome(_keys, _keysetId, <<>>, Throw(ErrRestoreNoSeed))
  ELSE restorePlanned(createBlindedMessages([i \in 1..count |-> 0], keysetId, start, 0),
                      keysOk, signed, mode)

-----------------------------------------------------------------------------
\* mintTokens

PostMintPayloadNoQuote(quote, blindedMessages) ==
  [endpoint |-> "mint", quote |-> UndefinedStr, outputs |-> blindedMessages]

\* const postMintPayload = { outputs: blindedMessages, quote }
PostMintPayload(quote, blindedMessages) ==
  [endpoint |-> "mint", quote |-> quote, outputs |-> blindedMessages]

\* mintTokens once the signatures are unblinded
mintProofs(quote, ik, bm, cp) ==
  IF ~cp.ok
  THEN Outcome(ik.keys, ik.keysetId,
               ik.reqs \o <<PostMintPayload(quote, bm.blindedMessages)>>, Throw(ErrProofs))
  ELSE Outcome(ik.keys, ik.keysetId,
               ik.reqs \o <<PostMintPayload(quote, bm.blindedMessages)>>,
               [status |-> "ok", proofs |-> cp.proofs])

\* mintTokens once the outputs are planned
mintPlanned(quote, ik, bm, mode) ==
  IF ~bm.ok THEN Outcome(ik.keys, ik.keysetId, ik.reqs, Throw(bm.error))
  ELSE IF mode = "pending"
  THEN Outcome(ik.keys, ik.keysetId,
               ik.reqs \o <<PostMintPayload(quote, bm.blindedMessages)>>, Pending)
  ELSE IF mode = "fail"
  THEN Outcome(ik.keys, ik.keysetId,
               ik.reqs \o <<PostMintPayload(quote, bm.blindedMessages)>>,
               Throw(ErrBadResponse))
  ELSE mintProofs(quote, ik, bm,
                  constructProofs(Signatures(bm.blindedMessages, mode),
                                  bm.rs, bm.secrets, ik.keys))

\* mintTokens once initKeys() is over
mintWithKeys(amount, quote, AmountPreference, mode, ik) ==
  IF ~ik.ok THEN Outcome(ik.keys, ik.keysetId, ik.reqs, Throw(ErrBadResponse))
  ELSE mintPlanned(quote, ik,
                   createRandomBlindedMessages(amount, ik.keys, AmountPreference,
                                               NoCounter, 0),
                   mode)

mintTokens(amount, quote, AmountPreference, keysOk, mode) ==
  mintWithKeys(amount, quote, AmountPreference, mode, initKeys(_keys, _keysetId, keysOk))

-----------------------------------------------------------------------------
\* payLnInvoice

\* payLnInvoice called without a meltQuote
NoMeltQuote == [quote |-> UndefinedStr, amount |-> 0, fee_reserve |-> 0]

\* this.mint.meltQuote({ unit: this.unit, request: invoice })
MeltQuoteRequest(invoice) == [endpoint |-> "meltQuote", unit |-> "sat", request |-> invoice]

\* the requests of a call put after those issued before it
After(rq, o) == [o EXCEPT !.reqs = rq \o @]

\* payLnInvoice(invoice, proofsToSend, meltQuote?, keysetId?, counter?); fetched
\* is the quote the mint answers with, quoteOk whether it answers at all
payLnInvoice(invoice, proofsToSend, meltQuote, keysetId, counter, keysOk, quoteOk, fetched, response) ==
  IF meltQuote # NoMeltQuote
  THEN meltTokens(meltQuote, proofsToSend, keysetId, counter, keysOk, response)
  ELSE IF ~quoteOk
  THEN Outcome(_keys, _keysetId, <<MeltQuoteRequest(invoice)>>, Throw(ErrBadResponse))
  ELSE After(<<MeltQuoteRequest(invoice)>>,
             meltTokens(fetched, proofsToSend, keysetId, counter, keysOk, response))

-----------------------------------------------------------------------------
\* checkProofsSpent

\* CheckStateEnum
CheckStates == {"UNSPENT", "PENDING", "SPENT"}

\* const payload = { secrets: proofs.map((p) => p.secret) }
CheckPayload(proofs) ==
  [endpoint |-> "check", secrets |-> [i \in 1..Len(proofs) |-> proofs[i].secret]]

\* states.find((state) => state.secret === proof.secret): the first match
FindState(states, secret) ==
  IF \E j \in 1..Len(states) : states[j].secret = secret
  THEN states[CHOOSE j \in 1..Len(states) :
                /\ states[j].secret = secret
                /\ \A k \in 1..(j - 1) : states[k].secret # secret]
  ELSE Undefined

\* return state && state.state === CheckStateEnum.SPENT
spentFilterNotUnspent(states, proof) ==
  /\ FindState(states, proof.secret) # Undefined
  /\ FindState(states, proof.secret).state # "UNSPENT"

spentFilter(states, proof) ==
  /\ FindState(states, proof.secret) # Undefined
  /\ FindState(states, proof.secret).state = "SPENT"

checkProofsSpentSwallows(proofs, states, mode) ==
  IF mode = "pending"
  THEN Outcome(_keys, _keysetId, <<CheckPayload(proofs)>>, Pending)
  ELSE IF mode = "fail"
  THEN Outcome(_keys, _keysetId, <<CheckPayload(proofs)>>,
               [status |-> "ok", proofs |-> <<>>])
  ELSE Outcome(_keys, _keysetId, <<CheckPayload(proofs)>>,
               [status |-> "ok",
                proofs |-> PickSeq(proofs, {i \in 1..Len(proofs) :
                                              spentFilter(states, proofs[i])})])

\* checkProofsSpent(proofs); states is the mint's answer
checkProofsSpent(proofs, states, mode) ==
  IF mode = "pending"
  THEN Outcome(_keys, _keysetId, <<CheckPayload(proofs)>>, Pending)
  ELSE IF mode = "fail"
  THEN Outcome(_keys, _keysetId, <<CheckPayload(proofs)>>, Throw(ErrBadResponse))
  ELSE Outcome(_keys, _keysetId, <<CheckPayload(proofs)>>,
               [status |-> "ok",
                proofs |-> PickSeq(proofs, {i \in 1..Len(proofs) :
                                              spentFilter(states, proofs[i])})])

-----
\* Inputs.

Counters == {NoCounter} \cup 0..MaxCounter
PrefEntries == [amount : PrefAmounts, count : 1..MaxPrefCount]
\* preferences of at most two entries, one entry per amount, in either order
GivenPreferences ==
  {[given |-> TRUE, list |-> l] :
     l \in {<<>>} \cup {<<e>> : e \in PrefEntries}
           \cup {ef \in PrefEntries \X PrefEntries : ef[1].amount # ef[2].amount}}
ProofLists == {InputProofs(as, 0) : as \in SeqsUpTo(Denominations, MaxProofs)}
\* send(amount, proofs, undefined, counter?) and
\* send(amount, proofs, preference, counter?): amount, preference, counter
SendArgs ==
  {<<a, NoPreference, c>> : a \in 0..MaxAmount, c \in Counters}
  \cup {<<a, p, c>> : a \in {1, MaxAmount}, p \in GivenPreferences, c \in {NoCounter, 0}}

\* receive(token): the proofs of an entry (an entry may come without any)
EntryAmounts == {<<>>, <<1>>, <<2, 1>>}
Token(amountLists) ==
  [token |-> [i \in 1..Len(amountLists) |->
                [mint |-> IF i = 1 THEN "https://mint.one" ELSE "https://mint.two",
                 proofs |-> InputProofs(amountLists[i], 10 * i)]]]
Tokens == {Token(ls) : ls \in SeqsUpTo(EntryAmounts, MaxEntries)}
ReceivePreferences ==
  {NoPreference}
  \cup {[given |-> TRUE, list |-> <<[amount |-> a, count |-> 1]>>] : a \in PrefAmounts}

\* meltTokens(meltQuote, proofsToSend, keysetId?, counter?)
MeltQuotes == [quote : {"quote1"}, amount : {1}, fee_reserve : 0..MaxFeeReserve]
MeltProofLists == {InputProofs(<<1>>, 0), InputProofs(<<2, 1>>, 0)}

\* mintTokens(amount, quote, AmountPreference?)
MintQuotes == {"quote1"}

\* payLnInvoice(invoice, proofsToSend, meltQuote?): answers of the mint to the melt
Invoices == {"lnbc1"}
PayResponses ==
  {r \in MeltResponses : r.fail \/ (r.hasPaid /\ r.paid /\ r.payment_preimage = "preimage")}

\* checkProofsSpent(proofs) and the states the mint reports: for each proof
\* one of the states, or no report
CheckProofLists == {InputProofs(as, 0) : as \in SeqsUpTo({1}, MaxProofs)}
CheckReports == CheckStates \cup {"none"}
ReportedStates(proofs, report) ==
  PickSeq([i \in 1..Len(proofs) |-> [secret |-> proofs[i].secret, state |-> report[i]]],
          {i \in 1..Len(proofs) : report[i] # "none"})

-----------------------------------------------------------------------------
\* The state machine.  The caller starts an operation when no call is
\* outstanding and takes its result before the next one.

NoCall == [op |-> "none"]
NoResult == [status |-> "none"]

\* new CashuWallet(mint, keys?, mnemonicOrSeed?)
Init ==
  /\ \E k \in {NoKeys} \cup {MintKeys(id) : id \in KeysetIds} :
       /\ _keys = k
       /\ _keysetId = k.id
  /\ _seed \in BOOLEAN
  /\ call = NoCall
  /\ reqs = <<>>
  /\ result = NoResult

\* set keys(keys)
SetKeys ==
  /\ call = NoCall
  /\ \E id \in KeysetIds :
       /\ _keys' = MintKeys(id)
       /\ _keysetId' = id
  /\ UNCHANGED <<_seed, call, reqs, result>>

Send ==
  /\ call = NoCall
  /\ \E args \in SendArgs, proofs \in ProofLists, keysOk \in BOOLEAN, mode \in MintModes :
       LET o == send(args[1], proofs, args[2], args[3], keysOk, mode)
       IN /\ _keys' = o.keys
          /\ _keysetId' = o.keysetId
          /\ call' = [op |-> "send", amount |-> args[1], proofs |-> proofs,
                      preference |-> args[2], counter |-> args[3], mode |-> mode,
                      seed |-> _seed, cachedBefore |-> ~NeedsKeys(_keys, _keysetId)]
          /\ reqs' = o.reqs
          /\ result' = o.result
  /\ UNCHANGED _seed

Receive ==
  /\ call = NoCall
  /\ \E token \in Tokens, preference \in ReceivePreferences, counter \in Counters,
        keysOk \in BOOLEAN :
       \E modes \in [1..Len(token.token) -> {"honest", "fail"}] :
         LET o == receive(token, preference, counter, keysOk, modes)
         IN /\ _keys' = o.keys
            /\ _keysetId' = o.keysetId
            /\ call' = [op |-> "receive", token |-> token, preference |-> preference,
                        counter |-> counter, modes |-> modes, keysOk |-> keysOk,
                        seed |-> _seed, cachedBefore |-> ~NeedsKeys(_keys, _keysetId)]
            /\ reqs' = o.reqs
            /\ result' = o.result
  /\ UNCHANGED _seed

MeltTokens ==
  /\ call = NoCall
  /\ \E meltQuote \in MeltQuotes, proofsToSend \in MeltProofLists,
        keysetId \in {UndefinedStr} \cup KeysetIds, counter \in Counters,
        keysOk \in BOOLEAN, response \in MeltResponses :
       LET o == meltTokens(meltQuote, proofsToSend, keysetId, counter, keysOk, response)
       IN /\ _keys' = o.keys
          /\ _keysetId' = o.keysetId
          /\ call' = [op |-> "meltTokens", meltQuote |-> meltQuote,
                      proofs |-> proofsToSend, keysetId |-> keysetId,
                      counter |-> counter, response |-> response,
                      seed |-> _seed, cachedBefore |-> ~NeedsKeys(_keys, _keysetId)]
          /\ reqs' = o.reqs
          /\ result' = o.result
  /\ UNCHANGED _seed

Restore ==
  /\ call = NoCall
  /\ \E start \in 0..MaxCounter, count \in 0..MaxRestoreCount, keysetId \in KeysetIds,
        keysOk \in BOOLEAN, mode \in MintModes :
       \E signed \in SUBSET (1..count) :
         LET o == restore(start, count, keysetId, keysOk, signed, mode)
         IN /\ _keys' = o.keys
            /\ _keysetId' = o.keysetId
            /\ call' = [op |-> "restore", start |-> start, counter |-> start,
                        count |-> count, keysetId |-> keysetId, signed |-> signed,
                        mode |-> mode, seed |-> _seed,
                        cachedBefore |-> ~NeedsKeys(_keys, _keysetId)]
            /\ reqs' = o.reqs
            /\ result' = o.result
  /\ UNCHANGED _seed

MintTokens ==
  /\ call = NoCall
  /\ \E amount \in 0..MaxMintAmount, quote \in MintQuotes,
        preference \in ReceivePreferences, keysOk \in BOOLEAN, mode \in MintModes :
       LET o == mintTokens(amount, quote, preference, keysOk, mode)
       IN /\ _keys' = o.keys
          /\ _keysetId' = o.keysetId
          /\ call' = [op |-> "mintTokens", amount |-> amount, quote |-> quote,
                      preference |-> preference, mode |-> mode, keysOk |-> keysOk,
                      seed |-> _seed, cachedBefore |-> ~NeedsKeys(_keys, _keysetId)]
          /\ reqs' = o.reqs
          /\ result' = o.result
  /\ UNCHANGED _seed

PayLnInvoice ==
  /\ call = NoCall
  /\ \E invoice \in Invoices, proofsToSend \in MeltProofLists,
        meltQuote \in {NoMeltQuote} \cup MeltQuotes, keysOk \in BOOLEAN,
        quoteOk \in BOOLEAN, fetched \in MeltQuotes, response \in PayResponses :
       LET o == payLnInvoice(invoice, proofsToSend, meltQuote, UndefinedStr, NoCounter,
                             keysOk, quoteOk, fetched, response)
       IN /\ _keys' = o.keys
          /\ _keysetId' = o.keysetId
          /\ call' = [op |-> "payLnInvoice", invoice |-> invoice,
                      proofs |-> proofsToSend, meltQuote |-> meltQuote,
                      quoteOk |-> quoteOk, fetched |-> fetched, response |-> response,
                      seed |-> _seed, cachedBefore |-> ~NeedsKeys(_keys, _keysetId)]
          /\ reqs' = o.reqs
          /\ result' = o.result
  /\ UNCHANGED _seed

CheckProofsSpent ==
  /\ call = NoCall
  /\ \E proofs \in CheckProofLists, mode \in {"honest", "fail"} :
       \E report \in [1..Len(proofs) -> CheckReports] :
         LET o == checkProofsSpent(proofs, ReportedStates(proofs, report), mode)
         IN /\ _keys' = o.keys
            /\ _keysetId' = o.keysetId
            /\ call' = [op |-> "checkProofsSpent", proofs |-> proofs, report |-> report,
                        mode |-> mode, seed |-> _seed,
                        cachedBefore |-> ~NeedsKeys(_keys, _keysetId)]
            /\ reqs' = o.reqs
            /\ result' = o.result
  /\ UNCHANGED _seed

\* the call is suspended at its request to the mint, with outcome o so far
Suspended(o, c) ==
  /\ o.result = Pending
  /\ _keys' = o.keys
  /\ _keysetId' = o.keysetId
  /\ call' = c
  /\ reqs' = o.reqs
  /\ result' = Pending

\* receive suspended at the swap of its first entry
SuspendedEntry(r, c) ==
  /\ r.reqs # <<>>
  /\ r.reqs[Len(r.reqs)].endpoint = "split"
  /\ _keys' = r.keys
  /\ _keysetId' = r.keysetId
  /\ call' = c
  /\ reqs' = r.reqs
  /\ result' = Pending

\* An operation is cancelled while its swap, mint, melt, restore or check
\* request is awaited: the rest of the operation never runs.
Cancel ==
  /\ call = NoCall
  /\ \/ \E amount \in 0..MaxAmount, proofs \in ProofLists, counter \in Counters,
           keysOk \in BOOLEAN :
          Suspended(send(amount, proofs, NoPreference, counter, keysOk, "pending"),
                    [op |-> "cancelled", of |-> "send", amount |-> amount, proofs |-> proofs,
                     preference |-> NoPreference, counter |-> counter,
                     mode |-> "pending", seed |-> _seed,
                     cachedBefore |-> ~NeedsKeys(_keys, _keysetId)])
     \/ \E token \in {t \in Tokens : Len(t.token) = 1}, counter \in Counters,
           keysOk \in BOOLEAN :
          /\ Len(token.token[1].proofs) > 0
          /\ SuspendedEntry(receiveTokenEntry(token.token[1], NoPreference, counter,
                                              _keys, _keysetId, keysOk, "pending"),
                            [op |-> "cancelled", of |-> "receive", token |-> token,
                             preference |-> NoPreference, counter |-> counter,
                             modes |-> <<"pending">>, keysOk |-> keysOk, seed |-> _seed,
                             cachedBefore |-> ~NeedsKeys(_keys, _keysetId)])
     \/ \E amount \in 0..MaxMintAmount, quote \in MintQuotes, keysOk \in BOOLEAN :
          Suspended(mintTokens(amount, quote, NoPreference, keysOk, "pending"),
                    [op |-> "cancelled", of |-> "mintTokens", amount |-> amount, quote |-> quote,
                     preference |-> NoPreference, mode |-> "pending",
                     keysOk |-> keysOk, seed |-> _seed,
                     cachedBefore |-> ~NeedsKeys(_keys, _keysetId)])
     \/ \E meltQuote \in MeltQuotes, proofsToSend \in MeltProofLists,
           counter \in Counters :
          Suspended(meltTokens(meltQuote, proofsToSend, UndefinedStr, counter, TRUE,
                               NoMeltResponse),
                    [op |-> "cancelled", of |-> "meltTokens", meltQuote |-> meltQuote,
                     proofs |-> proofsToSend, keysetId |-> UndefinedStr,
                     counter |-> counter, response |-> NoMeltResponse,
                     seed |-> _seed, cachedBefore |-> ~NeedsKeys(_keys, _keysetId)])
     \/ \E start \in 0..MaxCounter, count \in 0..MaxRestoreCount,
           keysetId \in KeysetIds :
          Suspended(restore(start, count, keysetId, TRUE, {}, "pending"),
                    [op |-> "cancelled", of |-> "restore", start |-> start, counter |-> start,
                     count |-> count, keysetId |-> keysetId, signed |-> {},
                     mode |-> "pending", seed |-> _seed,
                     cachedBefore |-> ~NeedsKeys(_keys, _keysetId)])
     \/ \E proofs \in CheckProofLists :
          Suspended(checkProofsSpent(proofs, <<>>, "pending"),
                    [op |-> "cancelled", of |-> "checkProofsSpent", proofs |-> proofs,
                     report |-> [i \in 1..Len(proofs) |-> "none"],
                     mode |-> "pending", seed |-> _seed,
                     cachedBefore |-> ~NeedsKeys(_keys, _keysetId)])
  /\ UNCHANGED _seed

\* The caller takes the result of the finished call.
Return ==
  /\ call # NoCall
  /\ call' = NoCall
  /\ reqs' = <<>>
  /\ result' = NoResult
  /\ UNCHANGED <<_keys, _keysetId, _seed>>

Next ==
  \/ SetKeys
  \/ Send
  \/ Receive
  \/ MeltTokens
  \/ Restore
  \/ MintTokens
  \/ PayLnInvoice
  \/ CheckProofsSpent
  \/ Cancel
  \/ Return

Spec == Init /\ [][Next]_vars

-----------------------------------------------------------------------------
\* Properties.

SendCalled == call.op = "send"
SendReturned == call.op = "send" /\ result.status = "ok"
SwapRequests == {i \in 1..Len(reqs) : reqs[i].endpoint = "split"}
\* the requests that carry blinded outputs
OutputRequests == {i \in 1..Len(reqs) : reqs[i].endpoint # "keys"}
\* the wallet holds a keyset once the call is over (cached before the call,
\* or fetched by it)
KeysAvailable == ~NeedsKeys(_keys, _keysetId)

\* the amount send works with: the total of the preference when one is given
Requested == IF call.preference.given THEN PrefTotal(call.preference.list)
             ELSE call.amount
\* sum of the first k proofs of the call
PrefixSum(k) == SumAmounts(SubSeq(call.proofs, 1, k))
\* how many leading proofs a greedy selection takes for the requested amount
GreedyCount ==
  CHOOSE k \in 0..Len(call.proofs) :
    /\ PrefixSum(k) >= Requested \/ k = Len(call.proofs)
    /\ \A j \in 0..(k - 1) : PrefixSum(j) < Requested
Selected == SubSeq(call.proofs, 1, GreedyCount)
Untouched == SubSeq(call.proofs, GreedyCount + 1, Len(call.proofs))
AmountsOf(xs) == [i \in 1..Len(xs) |-> xs[i].amount]
RECURSIVE Expand(_)
\* p[1].amount repeated p[1].count times, then p[2].amount ...
Expand(p) ==
  IF p = <<>> THEN <<>>
  ELSE [i \in 1..Head(p).count |-> Head(p).amount] \o Expand(Tail(p))
RECURSIVE Counts(_)
Counts(p) == IF p = <<>> THEN 0 ELSE Head(p).count + Counts(Tail(p))
LastN(xs, n) == SubSeq(xs, Len(xs) - n + 1, Len(xs))

\* C1: a send without preference answered by an honest mint returns send
\* proofs that sum to the amount, and send plus change sum to the given proofs.
SendConservesValue ==
  (SendReturned /\ ~call.preference.given /\ call.mode = "honest")
    => /\ SumAmounts(result.send) = call.amount
       /\ SumAmounts(result.send) + SumAmounts(result.returnChange)
            = SumAmounts(call.proofs)

\* send(1, [one proof of 2]) went through a swap and came back as 1 + 1
SendWithChangeReached ==
  /\ SendReturned /\ ~call.preference.given /\ call.mode = "honest"
  /\ call.amount = 1 /\ AmountsOf(call.proofs) = <<2>>
  /\ SwapRequests # {}
  /\ AmountsOf(result.send) = <<1>> /\ AmountsOf(result.returnChange) = <<1>>

\* C2 as stated: whenever the proofs sum to less than the requested amount,
\* send fails with 'Not enough funds available' and submits no swap.
SendInsufficientAlwaysFundsError ==
  (SendCalled /\ SumAmounts(call.proofs) < Requested)
    => /\ result = Throw(ErrNotEnoughFunds)
       /\ SwapRequests = {}

\* C2 amended: when the proofs sum to less than the requested amount, send
\* fails and submits no swap; the error is 'Not enough funds available' when
\* the wallet has its keys, and the error of the key request when that fails.
SendInsufficientFunds ==
  (SendCalled /\ SumAmounts(call.proofs) < Requested)
    => /\ result.status = "error"
       /\ SwapRequests = {}
       /\ KeysAvailable => result = Throw(ErrNotEnoughFunds)
       /\ ~KeysAvailable => result = Throw(ErrBadResponse)

\* send(2, [one proof of 1]) failed with the funds error
SendInsufficientReached ==
  /\ SendCalled /\ call.amount = 2 /\ ~call.preference.given
  /\ AmountsOf(call.proofs) = <<1>>
  /\ result = Throw(ErrNotEnoughFunds)
  /\ KeysAvailable

SendExactCase ==
  /\ SendReturned /\ ~call.preference.given /\ call.mode = "honest"
  /\ call.amount = 1 /\ AmountsOf(call.proofs) = <<1>>

\* C3 as stated: send(1, [p]) with p of amount 1 and no preference returns one
\* proof obtained from a swap with the mint (not p itself) and no change.
SendExactSwaps ==
  SendExactCase
    => /\ Len(result.send) = 1
       /\ result.send[1] # call.proofs[1]
       /\ SwapRequests # {}
       /\ result.returnChange = <<>>

\* C3 amended: send(1, [p]) with p of amount 1 and no preference returns p
\* itself as the only send proof, without a swap, and no change.
SendExactReturnsInput ==
  SendExactCase
    => /\ result.send = call.proofs
       /\ SwapRequests = {}
       /\ result.returnChange = <<>>

SendExactReached == SendExactCase /\ Len(result.send) = 1

\* C4: send takes proofs in the given order only while the running sum is
\* below the amount; the proofs after that point are not swap inputs and close
\* result.returnChange unchanged and in their order, after the change proofs.
SendLeavesRestUntouched ==
  SendReturned
    => /\ \A i \in SwapRequests : reqs[i].inputs = Selected
       /\ Len(result.returnChange) >= Len(Untouched)
       /\ LastN(result.returnChange, Len(Untouched)) = Untouched
       /\ \A i \in 1..(Len(result.returnChange) - Len(Untouched)) :
            \A j \in 1..Len(Untouched) : result.returnChange[i] # Untouched[j]
       /\ \A i \in 1..Len(result.send) :
            \A j \in 1..Len(Untouched) : result.send[i] # Untouched[j]

\* send(1, [2, 1]): the proof of 2 is swapped, the proof of 1 follows the change
SendUntouchedReached ==
  /\ SendReturned /\ SwapRequests # {}
  /\ AmountsOf(call.proofs) = <<2, 1>> /\ Requested = 1
  /\ Len(result.returnChange) = 2
  /\ result.returnChange[2] = call.proofs[2]

-----------------------------------------------------------------------------
\* Counters and seeds.

PlanningCall == call.op \in {"send", "receive", "meltTokens", "restore"}
CounterWithoutSeed == PlanningCall /\ call.counter # NoCounter /\ ~call.seed
\* the entries of the received token that carry proofs, in input order
NonEmptyEntries ==
  PickSeq(call.token.token,
          {i \in 1..Len(call.token.token) : Len(call.token.token[i].proofs) > 0})
\* the entries receive reports as failed
ErrorEntries ==
  IF "token" \in DOMAIN result.tokensWithErrors THEN result.tokensWithErrors.token
  ELSE <<>>
ReceivedEntries == result.token.token

\* C6 as stated: on a wallet without a seed every send, receive, melt or
\* restore given a counter fails with the no-seed error (receive: reports every
\* entry as failed) before any blinded output is sent.
CounterWithoutSeedAlwaysFails ==
  CounterWithoutSeed
    => /\ OutputRequests = {}
       /\ call.op # "receive"
            => /\ result.status = "error"
               /\ result.error \in {ErrNoSeed, ErrRestoreNoSeed}
       /\ call.op = "receive"
            => /\ ReceivedEntries = <<>>
               /\ ErrorEntries = NonEmptyEntries

\* C6 amended: on a wallet without a seed no call given a counter sends a
\* blinded output; melt fails with the no-seed error, restore with its own
\* seed error, receive reports every non-empty entry as failed, and send
\* fails with the no-seed error exactly when it has to plan a swap; a send
\* that needs no swap returns its inputs, and a failed key request or
\* insufficient funds are reported first.
CounterWithoutSeedNeverPlans ==
  CounterWithoutSeed
    => /\ OutputRequests = {}
       /\ call.op = "meltTokens" => result = Throw(ErrNoSeed)
       /\ call.op = "restore" => result = Throw(ErrRestoreNoSeed)
       /\ call.op = "receive"
            => /\ ReceivedEntries = <<>>
               /\ ErrorEntries = NonEmptyEntries
       /\ call.op = "send"
            => IF ~KeysAvailable THEN result = Throw(ErrBadResponse)
               ELSE IF SumAmounts(call.proofs) < Requested
               THEN result = Throw(ErrNotEnoughFunds)
               ELSE IF SumAmounts(Selected) > Requested \/ call.preference.given
               THEN result = Throw(ErrNoSeed)
               ELSE result = [status |-> "ok", returnChange |-> Untouched,
                              send |-> Selected]

\* send(1, [2], counter 0) on a wallet without seed failed with the no-seed error
CounterWithoutSeedReached ==
  /\ CounterWithoutSeed /\ call.op = "send" /\ call.counter = 0
  /\ AmountsOf(call.proofs) = <<2>> /\ Requested = 1
  /\ result = Throw(ErrNoSeed)

\* the derivation index of a planned output
IndexOf(output) == output.B_.Y.utf8.hex.index

\* C7: with a seed and a counter c the outputs of the swap of a send use the
\* derivation indices c, c+1, ... in planning order, keep group first.
SendCounterContiguous ==
  (SendCalled /\ call.seed /\ call.counter # NoCounter)
    => \A i \in SwapRequests :
         \A k \in 1..Len(reqs[i].outputs) :
           /\ reqs[i].outputs[k].B_.Y.utf8.hex.kind = "derived"
           /\ IndexOf(reqs[i].outputs[k]) = call.counter + k - 1

\* C8: receive of a decoded token puts every entry that has proofs into
\* exactly one of the token list (with new proofs) and the error list (the
\* entry as given), both in input order, and goes on after a failed entry.
ReceiveRoutesEveryEntry ==
  call.op = "receive"
    => /\ result.status = "ok"
       /\ \E failed \in SUBSET (1..Len(NonEmptyEntries)) :
            /\ ErrorEntries = PickSeq(NonEmptyEntries, failed)
            /\ [i \in 1..Len(ReceivedEntries) |-> ReceivedEntries[i].mint]
                 = [i \in 1..(Len(NonEmptyEntries) - Cardinality(failed)) |->
                      PickSeq(NonEmptyEntries,
                              (1..Len(NonEmptyEntries)) \ failed)[i].mint]
       /\ \A i \in 1..Len(ReceivedEntries) :
            \A k \in 1..Len(ReceivedEntries[i].proofs) :
              \A j \in 1..Len(call.token.token) :
                \A l \in 1..Len(call.token.token[j].proofs) :
                  ReceivedEntries[i].proofs[k] # call.token.token[j].proofs[l]

\* the first of two entries failed at its mint and the second was received
ReceiveContinuesReached ==
  /\ call.op = "receive"
  /\ Len(call.token.token) = 2 /\ Len(NonEmptyEntries) = 2
  /\ call.modes = <<"fail", "honest">>
  /\ ErrorEntries = <<call.token.token[1]>>
  /\ Len(ReceivedEntries) = 1
  /\ ReceivedEntries[1].mint = call.token.token[2].mint

\* C9: receive returns the entries directly under token (not under a further
\* token field) and leaves the error field undefined when no entry failed.
ReceiveFlatShape ==
  call.op = "receive"
    => /\ "token" \notin DOMAIN result.token
       /\ (\A i \in 1..Len(call.token.token) : call.modes[i] = "honest")
            /\ KeysAvailable /\ ~CounterWithoutSeed
            => result.tokensWithErrors = Undefined

-----------------------------------------------------------------------------
\* Blank outputs.

MeltCalled == call.op = "meltTokens"
RECURSIVE Pow2(_)
Pow2(n) == IF n = 0 THEN 1 ELSE 2 * Pow2(n - 1)
\* 0 for 0, 1 for 1 and 2, else the least n with 2^n >= feeReserve
ExpectedBlankOutputs(feeReserve) ==
  IF feeReserve = 0 THEN 0
  ELSE IF feeReserve <= 2 THEN 1
  ELSE CHOOSE n \in 1..feeReserve : Pow2(n) >= feeReserve /\ Pow2(n - 1) < feeReserve

\* C11: a melt that gets as far as its request (it does unless a counter is
\* given without a seed) sends as outputs exactly N blank outputs of amount 1,
\* N = 0 for fee_reserve 0, 1 for 1 and 2, ceil(log2(fee_reserve)) above.
MeltBlankOutputs ==
  MeltCalled
    => IF CounterWithoutSeed THEN reqs = <<>>
       ELSE /\ Len(reqs) >= 1
            /\ reqs[1].endpoint = "melt"
            /\ Len(reqs[1].outputs) = ExpectedBlankOutputs(call.meltQuote.fee_reserve)
            /\ \A k \in 1..Len(reqs[1].outputs) : reqs[1].outputs[k].amount = 1

\* a melt with fee_reserve 1 sent one output (the clamp)
MeltBlankOutputsReached ==
  /\ MeltCalled /\ ~CounterWithoutSeed
  /\ call.meltQuote.fee_reserve = 1
  /\ Len(reqs[1].outputs) = 1

-----------------------------------------------------------------------------
\* restore

RestoreCalled == call.op = "restore"
\* the outputs restore submitted
RestoreSubmitted == reqs[1].outputs

\* C12: restore without a seed fails and sends nothing; with a seed its
\* request carries exactly count outputs of amount 0 under keysetId, the k-th
\* derived (secret and blinding factor) at index start + k - 1.
RestorePlansCountOutputs ==
  RestoreCalled
    => IF ~call.seed THEN result.status = "error" /\ reqs = <<>>
       ELSE /\ Len(reqs) >= 1
            /\ reqs[1].endpoint = "restore"
            /\ \A i \in 2..Len(reqs) : reqs[i].endpoint # "restore"
            /\ Len(RestoreSubmitted) = call.count
            /\ \A k \in 1..call.count :
                 /\ RestoreSubmitted[k].amount = 0
                 /\ RestoreSubmitted[k].id = call.keysetId
                 /\ RestoreSubmitted[k].B_.Y
                      = EncodeHex(deriveSecret(call.keysetId, call.start + k - 1))
                 /\ RestoreSubmitted[k].B_.rG
                      = deriveBlindingFactor(call.keysetId, call.start + k - 1)

\* restore(1, 2, id) with a seed submitted the outputs of indices 1 and 2
RestorePlansReached ==
  /\ RestoreCalled /\ call.seed /\ call.start = 1 /\ call.count = 2
  /\ Len(RestoreSubmitted) = 2
  /\ IndexOf(RestoreSubmitted[1]) = 1 /\ IndexOf(RestoreSubmitted[2]) = 2

\* C13: every proof of a restore is the k-th returned signature unblinded with
\* the secret and the blinding factor of the planned output the signature was
\* made on, and there is one proof per returned signature.
RestorePairsMatching ==
  (RestoreCalled /\ result.status = "ok")
    => /\ Len(result.proofs) = Cardinality(call.signed)
       /\ \A k \in 1..Len(result.proofs) :
            result.proofs[k].C.C_.k
              = blindMessage(result.proofs[k].secret, result.proofs[k].C.r)

-----------------------------------------------------------------------------
\* checkProofsSpent

CheckReturned == call.op = "checkProofsSpent" /\ result.status = "ok"

\* C14: checkProofsSpent returns the given proofs the mint reports as SPENT,
\* in the given order, and no proof reported UNSPENT or PENDING or not
\* reported at all.
CheckSpentReturnsSpent ==
  CheckReturned
    => /\ result.proofs
            = PickSeq(call.proofs, {i \in 1..Len(call.proofs) : call.report[i] = "SPENT"})
       /\ reqs = <<CheckPayload(call.proofs)>>

\* of two proofs reported PENDING and SPENT the second was returned
CheckSpentReached ==
  /\ CheckReturned
  /\ Len(call.proofs) = 2
  /\ call.report = <<"PENDING", "SPENT">>
  /\ result.proofs = <<call.proofs[2]>>

-----------------------------------------------------------------------------
\* Determinism of planning.

\* positions in the stream of random values at which an invocation may start
Draws == {0, 1}
PlanAmounts == {<<>>, <<1>>, <<2, 1>>, <<0, 0>>}

\* C15: with a seed, planning the same amounts under the same keyset id from
\* the same counter gives the same blinded messages, secrets and blinding
\* factors whatever random values the invocation could draw (checked on the
\* wallet a restore has run on); a restore repeated with the same arguments
\* submits the outputs it submitted before.
PlanningDeterministic ==
  (RestoreCalled /\ call.seed)
    => /\ \A amounts \in PlanAmounts, id \in KeysetIds, counter \in 0..MaxCounter :
            \A d1 \in Draws, d2 \in Draws :
              createBlindedMessages(amounts, id, counter, d1)
                = createBlindedMessages(amounts, id, counter, d2)
       /\ restore(call.start, call.count, call.keysetId, TRUE, {}, "pending").reqs
            = <<reqs[1]>>

\* a restore of two outputs from index 0 failed at the mint and can be retried
RestoreRetryReached ==
  /\ RestoreCalled /\ call.seed /\ call.start = 0 /\ call.count = 2
  /\ call.mode = "fail" /\ result = Throw(ErrBadResponse)
  /\ Len(RestoreSubmitted) = 2

-----------------------------------------------------------------------------
\* Round trips.

\* a call of a public operation has run to its end
Completed == call.op \notin {"none", "cancelled"}
\* how many requests of the call went to the given endpoint
Count(endpoint) == Cardinality({i \in 1..Len(reqs) : reqs[i].endpoint = endpoint})
\* how many entries of the received token carry proofs
NonEmptyCount ==
  Cardinality({i \in 1..Len(call.token.token) : Len(call.token.token[i].proofs) > 0})

\* C16 as stated: every call of a public operation issues at most one request.
OneRoundTrip == Completed => Len(reqs) <= 1

\* C16 amended: per call, at most one swap / mint / melt / restore request and
\* exactly one check request; receive issues at most one swap per entry with
\* proofs; payLnInvoice one more request for the quote when none is given;
\* on top of these come the requests for keys: none for the active keyset
\* when a keyset is cached, and at most two in all.
RoundTripsBounded ==
  Completed
    => /\ Count("split") <= (IF call.op = "receive" THEN NonEmptyCount
                             ELSE IF call.op = "send" THEN 1 ELSE 0)
       /\ Count("mint") <= (IF call.op = "mintTokens" THEN 1 ELSE 0)
       /\ Count("melt") <= (IF call.op \in {"meltTokens", "payLnInvoice"} THEN 1 ELSE 0)
       /\ Count("restore") <= (IF call.op = "restore" THEN 1 ELSE 0)
       /\ Count("check") = (IF call.op = "checkProofsSpent" THEN 1 ELSE 0)
       /\ Count("meltQuote")
            <= (IF call.op = "payLnInvoice" /\ call.meltQuote = NoMeltQuote THEN 1 ELSE 0)
       /\ call.cachedBefore => \A i \in 1..Len(reqs) : reqs[i] # KeysRequest(UndefinedStr)
       /\ Count("keys") <= (IF call.op = "receive" THEN NonEmptyCount
                            ELSE IF call.op = "checkProofsSpent" THEN 0
                            ELSE IF call.op \in {"send", "mintTokens"} THEN 1 ELSE 2)
       /\ Len(reqs) <= (IF call.op = "receive" THEN NonEmptyCount + 1
                        ELSE IF call.op = "payLnInvoice" THEN 4 ELSE 3)

\* a receive of two entries on a wallet without keys: keys, swap, swap
RoundTripsReached ==
  /\ call.op = "receive" /\ ~call.cachedBefore
  /\ NonEmptyCount = 2
  /\ Len(reqs) = 3
  /\ reqs[1].endpoint = "keys" /\ reqs[2].endpoint = "split" /\ reqs[3].endpoint = "split"

-----------------------------------------------------------------------------
\* The keyset cache.

\* the call got signatures to unblind through getKeys: the change of a melt
\* or the promises of a restore
SignaturesReturned ==
  /\ result.status = "ok"
  /\ \/ /\ MeltCalled /\ call.response.hasChange
        /\ call.meltQuote.fee_reserve > 0
     \/ RestoreCalled /\ call.signed # {}
\* the keyset id these signatures carry
SignaturesKeysetId == IF MeltCalled THEN call.response.changeId ELSE call.keysetId
\* the proofs made of them
UnblindedProofs == IF MeltCalled THEN result.change ELSE result.proofs

\* C17 as stated: keys are requested only when no keyset is cached, and after
\* a melt with change or a restore the wallet holds the keys and the id of
\* the keyset of the signatures.
CacheRefreshedOnMismatch ==
  /\ (Completed /\ call.cachedBefore)
       => \A i \in 1..Len(reqs) : reqs[i] # KeysRequest(UndefinedStr)
  /\ SignaturesReturned
       => _keysetId = SignaturesKeysetId /\ _keys = MintKeys(SignaturesKeysetId)

\* C17 amended: a call leaves a cached keyset as it is and asks for the
\* active keyset only when none is cached, which then becomes the cached one
\* if the mint answers; signatures of another keyset are unblinded with that
\* keyset's keys, requested by id, and the cache is not changed by it.
CacheLazyNeverRefreshed ==
  [][(call = NoCall /\ call' # NoCall)
       => /\ ~NeedsKeys(_keys, _keysetId)
               => /\ UNCHANGED <<_keys, _keysetId>>
                  /\ \A i \in 1..Len(reqs') : reqs'[i] # KeysRequest(UndefinedStr)
          /\ NeedsKeys(_keys, _keysetId)
               => \/ UNCHANGED <<_keys, _keysetId>>
                  \/ /\ _keys' = MintKeys(ActiveKeysetId)
                     /\ _keysetId' = ActiveKeysetId
                     /\ \E i \in 1..Len(reqs') : reqs'[i] = KeysRequest(UndefinedStr)
          /\ SignaturesReturned'
               => /\ \A k \in 1..Len(UnblindedProofs') :
                       UnblindedProofs'[k].C.K = SignaturesKeysetId'
                  /\ SignaturesKeysetId' # _keysetId'
                       => reqs'[Len(reqs')] = KeysRequest(SignaturesKeysetId')]_vars

\* a melt on a wallet holding keyset A got change signed under keyset B: the
\* keys of B were requested and the wallet still holds A
CacheKeptReached ==
  /\ MeltCalled /\ SignaturesReturned /\ call.cachedBefore
  /\ SignaturesKeysetId = OtherKeysetId
  /\ _keysetId = ActiveKeysetId /\ _keys = MintKeys(ActiveKeysetId)
  /\ reqs[Len(reqs)] = KeysRequest(OtherKeysetId)
  /\ result.change[1].C.K = OtherKeysetId

-----------------------------------------------------------------------------
\* Cancellation.

Cancelled == call.op = "cancelled"

\* C18 as stated: an operation cancelled while its request is pending leaves
\* the keys, the keyset id and the seed as they were before the call.
CancelLeavesStateUnchanged ==
  [][(call = NoCall /\ Cancelled') => UNCHANGED <<_keys, _keysetId, _seed>>]_vars

\* C18 amended: an operation cancelled while its request is pending leaves
\* the seed as it was, and the keys and keyset id as they were if a keyset was
\* cached or the operation is a melt, a restore or a check; a send, receive or
\* mintTokens on a wallet without keyset has loaded the active keyset before
\* its request and keeps it.
CancelKeepsLoadedKeys ==
  [][(call = NoCall /\ Cancelled')
       => /\ UNCHANGED _seed
          /\ result' = Pending
          /\ reqs'[Len(reqs')].endpoint \in {"split", "mint", "melt", "restore", "check"}
          /\ IF NeedsKeys(_keys, _keysetId)
                  /\ call'.of \in {"send", "receive", "mintTokens"}
             THEN /\ _keys' = MintKeys(ActiveKeysetId)
                  /\ _keysetId' = ActiveKeysetId
                  /\ reqs'[1] = KeysRequest(UndefinedStr)
             ELSE UNCHANGED <<_keys, _keysetId>>]_vars

\* a send cancelled at its swap on a wallet that had no keyset holds the
\* active keyset
CancelledSendReached ==
  /\ Cancelled /\ call.of = "send" /\ ~call.cachedBefore
  /\ result = Pending
  /\ Len(reqs) = 2 /\ reqs[2].endpoint = "split"
  /\ _keysetId = ActiveKeysetId /\ _keys = MintKeys(ActiveKeysetId)

-----------------------------------------------------------------------------
\* Failures of the mint.

\* the request an operation exists for
MainEndpoint ==
  IF call.op = "send" THEN "split"
  ELSE IF call.op = "mintTokens" THEN "mint"
  ELSE IF call.op = "meltTokens" THEN "melt"
  ELSE IF call.op = "restore" THEN "restore"
  ELSE "check"
\* the mint answered that request with an error
MainRequestFailed ==
  /\ call.op \in {"send", "mintTokens", "meltTokens", "restore", "checkProofsSpent"}
  /\ IF MeltCalled THEN call.response.fail ELSE call.mode = "fail"
  /\ Count(MainEndpoint) >= 1

\* C19: when the swap, mint, melt, restore or check request of send,
\* mintTokens, meltTokens, restore or checkProofsSpent fails, the call fails
\* with that error, and the request was issued once and nothing after it.
MintFailureSurfaces ==
  MainRequestFailed
    => /\ result = Throw(ErrBadResponse)
       /\ Count(MainEndpoint) = 1
       /\ reqs[Len(reqs)].endpoint = MainEndpoint

\* a send on a wallet with keys whose swap failed: one request, the error
SendBadResponseReached ==
  /\ SendCalled /\ call.cachedBefore /\ call.mode = "fail"
  /\ Len(reqs) = 1 /\ reqs[1].endpoint = "split"
  /\ result = Throw(ErrBadResponse)

-----------------------------------------------------------------------------
\* mintTokens

MintCalled == call.op = "mintTokens"
RECURSIVE PopCount(_)
\* the number of set bits of n
PopCount(n) == IF n = 0 THEN 0 ELSE (n % 2) + PopCount(n \div 2)
IsPowerOfTwo(a) == \E e \in 0..a : Pow2(e) = a
\* the outputs of the last request of the call
LastOutputs == reqs[Len(reqs)].outputs

\* C20: mintTokens without preference, once the wallet has keys, sends one
\* request { quote, outputs } whose amounts are distinct powers of two that
\* sum to amount, one per set bit; when the mint signs every output the
\* result has one proof per output and the proofs sum to amount.
MintTokensDefaultSplit ==
  (MintCalled /\ ~call.preference.given /\ KeysAvailable)
    => /\ Count("mint") = 1
       /\ reqs[Len(reqs)].endpoint = "mint"
       /\ reqs[Len(reqs)].quote = call.quote
       /\ Len(LastOutputs) = PopCount(call.amount)
       /\ SumAmounts(LastOutputs) = call.amount
       /\ \A i \in 1..Len(LastOutputs) :
            /\ IsPowerOfTwo(LastOutputs[i].amount)
            /\ \A j \in 1..Len(LastOutputs) :
                 i # j => LastOutputs[i].amount # LastOutputs[j].amount
       /\ call.mode # "fail"
            => /\ result.status = "ok"
               /\ Len(result.proofs) = PopCount(call.amount)
               /\ SumAmounts(result.proofs) = call.amount

\* mintTokens(MaxMintAmount, quote) returned one proof per set bit
MintTokensReached ==
  /\ MintCalled /\ ~call.preference.given /\ call.mode = "honest"
  /\ call.amount = MaxMintAmount
  /\ result.status = "ok"
  /\ Len(result.proofs) = PopCount(MaxMintAmount)
  /\ Len(result.proofs) >= 2

-----------------------------------------------------------------------------
\* The swap of send.

\* xs are distinct powers of two in ascending order that sum to value
IsDefaultSplitOf(xs, value) ==
  /\ SumAmounts(xs) = value
  /\ \A i \in 1..Len(xs) : IsPowerOfTwo(xs[i].amount)
  /\ \A i \in 1..(Len(xs) - 1) : xs[i].amount < xs[i + 1].amount
\* the send reaches the planning of a swap: it has keys, the proofs cover the
\* amount and a counter comes with a seed
SendPlans ==
  /\ KeysAvailable
  /\ SumAmounts(call.proofs) >= Requested
  /\ ~CounterWithoutSeed
\* the selected sum exceeds the amount or a preference is set
SwapCondition == SumAmounts(Selected) > Requested \/ call.preference.given
\* how many leading outputs make up the keep group of the swap request
\* (one per set bit of the keep total)
KeepLen ==
  IF SumAmounts(Selected) > Requested THEN PopCount(SumAmounts(Selected) - Requested)
  ELSE 0
\* how many leading proofs of the answer are change: the shortest prefix that
\* reaches the keep total
ChangeLen ==
  Len(result.returnChange) - Len(Untouched)

\* C21 as stated: send submits a swap if and only if the selected sum exceeds
\* the amount or a preference is set.
SendSwapsIffConditionOnly ==
  SendCalled => (SwapRequests # {} <=> SwapCondition)

\* C21 amended: a send that has keys, enough funds and no counter without a
\* seed submits a swap if and only if the selected sum exceeds the amount or
\* a preference is set (any other send submits none); the swap is the only
\* one, its inputs are the selected proofs, its outputs are the default split
\* of selected_sum - amount followed by the split of amount by preference,
\* and the returned proofs are divided in that order: the shortest leading
\* run that reaches the keep total is change (ahead of the untouched proofs),
\* the remainder is send.
SendSwapsOnceKeepThenSend ==
  SendCalled
    => /\ SwapRequests # {} <=> (SendPlans /\ SwapCondition)
       /\ Cardinality(SwapRequests) <= 1
       /\ \A i \in SwapRequests :
            LET outputs == reqs[i].outputs
                keep == SubSeq(outputs, 1, KeepLen)
                sendGroup == SubSeq(outputs, KeepLen + 1, Len(outputs))
            IN /\ reqs[i].inputs = Selected
               /\ Len(outputs) >= KeepLen
               /\ IsDefaultSplitOf(keep, SumAmounts(Selected) - Requested)
               /\ SumAmounts(sendGroup) = Requested
               /\ IF call.preference.given
                  THEN AmountsOf(sendGroup) = Expand(call.preference.list)
                  ELSE IsDefaultSplitOf(sendGroup, Requested)
               /\ result.status = "ok"
                    => LET change == SubSeq(result.returnChange, 1, ChangeLen)
                       IN /\ ChangeLen >= 0
                          /\ SubSeq(result.returnChange, ChangeLen + 1,
                                    Len(result.returnChange)) = Untouched
                          /\ Len(change) + Len(result.send) = Len(outputs)
                          /\ SumAmounts(change) >= SumAmounts(keep)
                          /\ ChangeLen > 0
                               => SumAmounts(SubSeq(change, 1, ChangeLen - 1))
                                    < SumAmounts(keep)
                          /\ call.mode = "honest"
                               => /\ AmountsOf(change) = AmountsOf(keep)
                                  /\ AmountsOf(result.send) = AmountsOf(sendGroup)
                                  /\ \A j \in 1..Len(change) :
                                       change[j].secret = outputs[j].B_.Y
                                  /\ \A j \in 1..Len(result.send) :
                                       result.send[j].secret
                                         = outputs[Len(change) + j].B_.Y

\* send(1, [2, 1]) swapped the proof of 2 for outputs 1 (keep) and 1 (send)
SendSwapReached ==
  /\ SendReturned /\ ~call.preference.given /\ call.mode = "honest"
  /\ Requested = 1 /\ AmountsOf(call.proofs) = <<2, 1>>
  /\ \E i \in SwapRequests : /\ AmountsOf(reqs[i].inputs) = <<2>>
                              /\ AmountsOf(reqs[i].outputs) = <<1, 1>>
  /\ AmountsOf(result.send) = <<1>>
  /\ AmountsOf(result.returnChange) = <<1, 1>>

-----------------------------------------------------------------------------
\* Value conservation of the swap payloads.

\* a send or a receive has run to its end
SwapCall == call.op \in {"send", "receive"}
\* the split payload the call built for its swap request i, with the lists it
\* retains for unblinding
SwapPlan(i) ==
  IF call.op = "send"
  THEN createSplitPayload(Requested, reqs[i].inputs, _keys, call.preference,
                          call.counter)
  ELSE createSplitPayload(SumAmounts(reqs[i].inputs), reqs[i].inputs, _keys,
                          entryPreference(call.preference, SumAmounts(reqs[i].inputs)),
                          call.counter)

\* C22: in every swap request of a send or a receive the output amounts sum
\* to the sum of the input proofs, and the blinded messages, secrets,
\* blinding factors and amounts retained for unblinding have the length of
\* the outputs and their order (the j-th secret and blinding factor blind to
\* the j-th output, the j-th amount is its amount).
SwapsConserveValue ==
  SwapCall
    => \A i \in SwapRequests :
         LET outputs == reqs[i].outputs
             bm == SwapPlan(i)
         IN /\ SumAmounts(outputs) = SumAmounts(reqs[i].inputs)
            /\ bm.ok
            /\ bm.blindedMessages = outputs
            /\ Len(bm.secrets) = Len(outputs)
            /\ Len(bm.rs) = Len(outputs)
            /\ Len(bm.amounts) = Len(outputs)
            /\ \A j \in 1..Len(outputs) :
                 /\ bm.amounts[j] = outputs[j].amount
                 /\ blindMessage(bm.secrets[j], bm.rs[j]) = outputs[j].B_

\* receive of an entry [2, 1] with a preference of one 1, which does not sum
\* to 3, was swapped for outputs 1 and 2
SwapConservedReached ==
  /\ call.op = "receive" /\ call.preference.given
  /\ PrefTotal(call.preference.list) = 1
  /\ \E i \in SwapRequests : /\ AmountsOf(reqs[i].inputs) = <<2, 1>>
                              /\ AmountsOf(reqs[i].outputs) = <<1, 2>>
  /\ Len(ReceivedEntries) >= 1

-----------------------------------------------------------------------------
\* Derivation indices across the entries of one receive.

\* the planned outputs of the call, as pairs <<request, position>>
PlannedOutputs ==
  {<<i, k>> \in SwapRequests \X (1..(MaxProofs + 2)) : k <= Len(reqs[i].outputs)}

\* C23: in one receive made with a seed and a counter no two outputs planned
\* anywhere in the call use the same derivation index: no two of them carry
\* the same derived secret and blinding factor.
ReceiveIndicesDistinct ==
  (call.op = "receive" /\ call.seed /\ call.counter # NoCounter)
    => \A a \in PlannedOutputs, b \in PlannedOutputs :
         a # b => /\ IndexOf(reqs[a[1]].outputs[a[2]]) # IndexOf(reqs[b[1]].outputs[b[2]])
                  /\ reqs[a[1]].outputs[a[2]].B_ # reqs[b[1]].outputs[b[2]].B_

-----------------------------------------------------------------------------
\* The cached keyset and its id.

\* keys are cached
KeysCached == _keys # NoKeys
\* a step of an operation (the keys setter leaves the call untouched)
OperationStep == call' # call

\* C24: in every reachable state the cached keyset id is the id of the cached
\* keys whenever keys are cached, and once a keyset is cached no operation
\* replaces or clears it: only the keys setter changes the cached keys and id.
CachedIdMatchesKeys ==
  /\ [](KeysCached => (_keysetId = _keys.id /\ _keysetId # ""))
  /\ [][(KeysCached /\ OperationStep)
          => (_keys' = _keys /\ _keysetId' = _keysetId)]_vars

\* a wallet holding the keys of keyset B finished a send that
\* swapped at the mint and still holds B
CachedKeysKeptReached ==
  /\ SendReturned /\ SwapRequests # {}
  /\ _keys = MintKeys(OtherKeysetId) /\ _keysetId = OtherKeysetId
  /\ Count("keys") = 0

-----------------------------------------------------------------------------
\* The keyset id of the blinded messages.

\* the requests that carry blinded messages
RequestsWithOutputs == {i \in 1..Len(reqs) : "outputs" \in DOMAIN reqs[i]}
\* the keyset id the caller supplied, if the operation takes one and got one
SuppliedKeysetId ==
  IF "keysetId" \in DOMAIN call THEN call.keysetId ELSE UndefinedStr

\* C25: every blinded message sent to the mint carries a non-empty keyset id:
\* the caller-supplied one where one is given, otherwise the id of the keyset
\* the wallet holds (the mint's active keyset when the wallet loaded it);
\* also for the blank outputs of meltTokens without keysetId on a wallet
\* that has not loaded keys.
OutputsCarryKeysetId ==
  \A i \in RequestsWithOutputs :
    \A k \in 1..Len(reqs[i].outputs) :
      /\ reqs[i].outputs[k].id # ""
      /\ reqs[i].outputs[k].id # UndefinedStr
      /\ SuppliedKeysetId # UndefinedStr => reqs[i].outputs[k].id = SuppliedKeysetId
      /\ (SuppliedKeysetId = UndefinedStr /\ KeysAvailable)
           => reqs[i].outputs[k].id = _keysetId

====
